---- MODULE Spec2Model ----
(***************************************************************************)
(* A model of dist_test's "grind" test command (src/bin/grind.py) and of   *)
(* the Maven project model it selects tests from                           *)
(* (src/python/disttest/mavenproject.py).                                  *)
(*                                                                         *)
(* Spec         the test command: TestRunner.__init__, run, run_tests,     *)
(*              isolate_hashes_to_tasks and cleanup under test_subcommand's *)
(*              try/finally.                                               *)
(* SpecProject  the construction of a MavenProject: path normalisation and *)
(*              validation, the module walk, the inclusion list, the       *)
(*              filter chain and the artifact classification.              *)
(*                                                                         *)
(* Python's None is the empty sequence and a present value v is <<v>>.     *)
(***************************************************************************)
EXTENDS Integers, Sequences, FiniteSets, TLC

VARIABLES
    \* ---- the test command (grind.py) ----
    args,            \* the parsed command line of the "test" subcommand
    config_ok,       \* whether ~/.grind.cfg can be read and validated
    pc,              \* the statement the command is at
    output_dir,      \* the temp directory: "absent", "exists" or "removed"
    isolated_files,  \* Isolate.isolated_files after generate(): <<>> before, <<n>> after
    archive_runs,    \* how many times "isolate batcharchive" was started
    archive_rc,      \* its exit status, None while it has not exited
    hashes_file,     \* hashes.json: None, or <<mapping>> as dumped by the archiver
    hashes_read,     \* whether hashes.json was opened and parsed
    manifest,        \* run.json: None, or <<the "tasks" list>>
    submit_runs,     \* how many times the dist_test client was started
    submit_rc,       \* its exit status, None while it has not exited
    errlog,          \* the logger.error records
    raised,          \* the exception in flight or that ended the command
    \* ---- MavenProject construction (mavenproject.py) ----
    fs,              \* the file system below the project root
    mp_args,         \* the constructor's arguments
    mp_pc,           \* the statement the constructor is at
    project_root,    \* self.project_root
    modules,         \* self.modules: a sequence of Module records
    included_modules,\* self.included_modules: indices into modules
    include_left,    \* self.__include_modules, which _walk mutates
    filters,         \* self.__filters, the filter chain
    accept_calls,    \* the filters whose accept() was called, by kind and size
    mp_raised        \* the exception that ended the construction

gvars == <<args, config_ok, pc, output_dir, isolated_files, archive_runs,
           archive_rc, hashes_file, hashes_read, manifest, submit_runs,
           submit_rc, errlog, raised>>
pvars == <<fs, mp_args, mp_pc, project_root, modules, included_modules,
           include_left, filters, accept_calls, mp_raised>>
vars == <<gvars, pvars>>

None == <<>>
Some(v) == <<v>>
IsNone(o) == o = <<>>
Get(o) == o[1]
Option(S) == {None} \cup {Some(v) : v \in S}

SeqsUpTo(S, n) == UNION {[1..k -> S] : k \in 0..n}
NonEmptySeqsUpTo(S, n) == UNION {[1..k -> S] : k \in 1..n}

(***************************************************************************)
(* Bounds of the model.                                                    *)
(***************************************************************************)
MaxTests == 2       \* task-description files generate() may produce
MaxPairs == 2       \* (name, hash) pairs in hashes.json

(***************************************************************************)
(* The test command, src/bin/grind.py.                                     *)
(***************************************************************************)

\* json.load returns unicode strings: sequences of code points.  The logical
\* names are "a", "b", "\u00e9" and "a\u00e9", the content hashes "0" and "f".
Names == {<<97>>, <<98>>, <<233>>, <<97, 233>>}
Hashes == {<<48>>, <<102>>}

\* What "isolate batcharchive --dump-json" can leave in hashes.json: a mapping
\* from logical name to content hash.
HashMappings ==
    UNION {[D -> Hashes] : D \in {E \in SUBSET Names : Cardinality(E) <= MaxPairs}}

\* The orders in which a dict of these keys can be iterated.
Orders(D) ==
    {o \in [1..Cardinality(D) -> D] : \A i, j \in DOMAIN o : i # j => o[i] # o[j]}

\* Python 2 str() of a unicode string encodes it as ASCII: the same code
\* units when every one is below 128, UnicodeEncodeError otherwise (None).
str(u) ==
    IF \A i \in DOMAIN u : u[i] < 128 THEN Some(u) ELSE None

DefaultTimeout == 300

\* The loop of isolate_hashes_to_tasks over inmap.iteritems(), visiting the
\* keys in the order `order`: the task list, or None when str() raises.
RECURSIVE TasksFrom(_, _, _)
TasksFrom(inmap, order, tasks) ==
    IF order = <<>> THEN Some(tasks)
    ELSE LET k == Head(order)
             v == inmap[k]
         IN  IF IsNone(str(v)) \/ IsNone(str(k)) THEN None
             ELSE TasksFrom(inmap, Tail(order),
                            tasks \o <<[isolate_hash |-> Get(str(v)),
                                        description |-> Get(str(k)),
                                        timeout |-> DefaultTimeout]>>)

\* isolate_hashes_to_tasks(infile, outfile): the content written to outfile,
\* None when the function raises before opening it.
isolate_hashes_to_tasks(inmap, order) == TasksFrom(inmap, order, <<>>)

PatternArgs == Option({<<"*Test">>})

ArgsSet ==
    [list_modules : BOOLEAN, dry_run : BOOLEAN, leak_temp : BOOLEAN,
     include_patterns : PatternArgs, exclude_patterns : PatternArgs]

\* What constructing isolate.Isolate, package() and generate() can do: raise
\* one of the project model's errors, or leave n task-description files.
IsolateErrors == {"NotMavenProjectException", "ModuleNotFoundException"}

ProjectIdle ==
    /\ fs = <<>>
    /\ mp_args = <<>>
    /\ mp_pc = "idle"
    /\ project_root = <<>>
    /\ modules = <<>>
    /\ included_modules = <<>>
    /\ include_left = None
    /\ filters = <<>>
    /\ accept_calls = {}
    /\ mp_raised = None

Init ==
    /\ args \in ArgsSet
    /\ config_ok \in BOOLEAN
    /\ pc = "init"
    /\ output_dir = "absent"
    /\ isolated_files = None
    /\ archive_runs = 0
    /\ archive_rc = None
    /\ hashes_file = None
    /\ hashes_read = FALSE
    /\ manifest = None
    /\ submit_runs = 0
    /\ submit_rc = None
    /\ errlog = <<>>
    /\ raised = None
    /\ ProjectIdle

\* TestRunner.__init__, called by test_subcommand before its try block.
TestRunner_init ==
    /\ pc = "init"
    /\ IF config_ok
       THEN /\ output_dir' = "exists"
            /\ pc' = "run"
            /\ UNCHANGED raised
       ELSE /\ raised' = Some("Exception: No config file found")
            /\ pc' = "done"
            /\ UNCHANGED output_dir
    /\ UNCHANGED <<args, config_ok, isolated_files, archive_runs, archive_rc,
                   hashes_file, hashes_read, manifest, submit_runs, submit_rc,
                   errlog, pvars>>

\* TestRunner.run with --list-modules.
run_list_modules ==
    /\ pc = "run"
    /\ args.list_modules
    /\ \E e \in Option(IsolateErrors) : raised' = e
    /\ pc' = "cleanup"
    /\ UNCHANGED <<args, config_ok, output_dir, isolated_files, archive_runs,
                   archive_rc, hashes_file, hashes_read, manifest, submit_runs,
                   submit_rc, errlog, pvars>>

NoTestsLog ==
    <<[msg |-> "No tests found for project", arg |-> None],
      [msg |-> "Include patterns", arg |-> args.include_patterns],
      [msg |-> "Exclude patterns", arg |-> args.exclude_patterns]>>

\* run_tests_generate without the len(i.isolated_files) == 0 check: the archiver
\* is started on an empty file list.
run_tests_generate_unchecked ==
    /\ pc = "run"
    /\ ~args.list_modules
    /\ \/ /\ \E e \in IsolateErrors : raised' = Some(e)
          /\ pc' = "cleanup"
          /\ UNCHANGED <<isolated_files, archive_runs>>
       \/ \E n \in 0..MaxTests :
            /\ isolated_files' = Some(n)
            /\ archive_runs' = archive_runs + 1
            /\ pc' = "archive_wait"
            /\ UNCHANGED raised
    /\ UNCHANGED <<args, config_ok, output_dir, archive_rc, hashes_file,
                   hashes_read, manifest, submit_runs, submit_rc, errlog, pvars>>

\* TestRunner.run_tests up to the start of "isolate batcharchive".
run_tests_generate ==
    /\ pc = "run"
    /\ ~args.list_modules
    /\ \/ /\ \E e \in IsolateErrors : raised' = Some(e)
          /\ pc' = "cleanup"
          /\ UNCHANGED <<isolated_files, errlog, archive_runs>>
       \/ \E n \in 0..MaxTests :
            /\ isolated_files' = Some(n)
            /\ IF n = 0
               THEN /\ errlog' = errlog \o NoTestsLog
                    /\ raised' = Some("SystemExit(2)")
                    /\ pc' = "cleanup"
                    /\ UNCHANGED archive_runs
               ELSE /\ archive_runs' = archive_runs + 1
                    /\ pc' = "archive_wait"
                    /\ UNCHANGED <<errlog, raised>>
    /\ UNCHANGED <<args, config_ok, output_dir, archive_rc, hashes_file,
                   hashes_read, manifest, submit_runs, submit_rc, pvars>>

\* The archiver exits non-zero: p.wait() returns and run_tests raises.
archive_failed ==
    /\ pc = "archive_wait"
    /\ \E rc \in {1, 2} : archive_rc' = Some(rc)
    /\ raised' = Some("Exception: isolate batcharchive failed")
    /\ pc' = "cleanup"
    /\ UNCHANGED <<args, config_ok, output_dir, isolated_files, archive_runs,
                   hashes_file, hashes_read, manifest, submit_runs, submit_rc,
                   errlog, pvars>>

\* archive_done without the args.dry_run test: the client is always started.
archive_done_always_submits ==
    /\ pc = "archive_wait"
    /\ archive_rc' = Some(0)
    /\ \E inmap \in HashMappings : \E order \in Orders(DOMAIN inmap) :
         LET out == isolate_hashes_to_tasks(inmap, order)
         IN  /\ hashes_file' = Some(inmap)
             /\ hashes_read' = TRUE
             /\ IF IsNone(out)
                THEN /\ raised' = Some("UnicodeEncodeError")
                     /\ pc' = "cleanup"
                     /\ UNCHANGED <<manifest, submit_runs>>
                ELSE /\ manifest' = out
                     /\ UNCHANGED raised
                     /\ submit_runs' = submit_runs + 1
                     /\ pc' = "submit_wait"
    /\ UNCHANGED <<args, config_ok, output_dir, isolated_files, archive_runs,
                   submit_rc, errlog, pvars>>

\* The archiver exits 0 having dumped hashes.json: run_tests turns it into
\* run.json and, unless --dry-run, starts the dist_test client.
archive_done ==
    /\ pc = "archive_wait"
    /\ archive_rc' = Some(0)
    /\ \E inmap \in HashMappings : \E order \in Orders(DOMAIN inmap) :
         LET out == isolate_hashes_to_tasks(inmap, order)
         IN  /\ hashes_file' = Some(inmap)
             /\ hashes_read' = TRUE
             /\ IF IsNone(out)
                THEN /\ raised' = Some("UnicodeEncodeError")
                     /\ pc' = "cleanup"
                     /\ UNCHANGED <<manifest, submit_runs>>
                ELSE /\ manifest' = out
                     /\ UNCHANGED raised
                     /\ IF args.dry_run
                        THEN /\ pc' = "cleanup"
                             /\ UNCHANGED submit_runs
                        ELSE /\ submit_runs' = submit_runs + 1
                             /\ pc' = "submit_wait"
    /\ UNCHANGED <<args, config_ok, output_dir, isolated_files, archive_runs,
                   submit_rc, errlog, pvars>>

\* The dist_test client exits: p.wait() returns and run_tests ends.
submit_exit ==
    /\ pc = "submit_wait"
    /\ \E rc \in {0, 1} :
         /\ submit_rc' = Some(rc)
         /\ raised' = IF rc # 0 THEN Some("Exception: dist_test client submit failed")
                                ELSE raised
    /\ pc' = "cleanup"
    /\ UNCHANGED <<args, config_ok, output_dir, isolated_files, archive_runs,
                   archive_rc, hashes_file, hashes_read, manifest, submit_runs,
                   errlog, pvars>>

\* cleanup called after runner.run() with no try/finally: an exception skips it.
cleanup_no_finally ==
    /\ pc = "cleanup"
    /\ output_dir' = IF args.leak_temp \/ ~IsNone(raised) THEN output_dir ELSE "removed"
    /\ pc' = "done"
    /\ UNCHANGED <<args, config_ok, isolated_files, archive_runs, archive_rc,
                   hashes_file, hashes_read, manifest, submit_runs, submit_rc,
                   errlog, raised, pvars>>

\* TestRunner.cleanup, the finally clause of test_subcommand: it runs however
\* run() ended, and the exception in flight, if any, goes on afterwards.
cleanup ==
    /\ pc = "cleanup"
    /\ output_dir' = IF args.leak_temp THEN output_dir ELSE "removed"
    /\ pc' = "done"
    /\ UNCHANGED <<args, config_ok, isolated_files, archive_runs, archive_rc,
                   hashes_file, hashes_read, manifest, submit_runs, submit_rc,
                   errlog, raised, pvars>>

\* The process's exit status once the command is over.
ExitStatus ==
    IF IsNone(raised) THEN 0
    ELSE IF raised = Some("SystemExit(2)") THEN 2
    ELSE 1

Next ==
    \/ TestRunner_init
    \/ run_list_modules
    \/ run_tests_generate
    \/ archive_failed
    \/ archive_done
    \/ submit_exit
    \/ cleanup

Spec == Init /\ [][Next]_vars

(***************************************************************************)
(* The project model, src/python/disttest/mavenproject.py.                 *)
(*                                                                         *)
(* A string is a sequence of tokens, each standing for the run of          *)
(* characters it spells ("/", "target", ".jar", "Test"); prefix, suffix    *)
(* and membership tests are made token by token.  Class names and glob     *)
(* patterns are sequences of single characters.                            *)
(***************************************************************************)
StartsWith(s, pre) ==
    Len(pre) <= Len(s) /\ SubSeq(s, 1, Len(pre)) = pre

EndsWith(s, suf) ==
    Len(suf) <= Len(s) /\ SubSeq(s, Len(s) - Len(suf) + 1, Len(s)) = suf

Contains(s, tok) == \E i \in DOMAIN s : s[i] = tok

\* os.path.join(a, b) for a relative b.
Join(a, b) ==
    IF a = <<>> \/ a[Len(a)] = "/" THEN a \o b ELSE a \o <<"/">> \o b

\* os.path.basename(p): what follows the last "/".
basename(p) ==
    LET slashes == {i \in DOMAIN p : p[i] = "/"}
        last == IF slashes = {} THEN 0
                ELSE CHOOSE i \in slashes : \A j \in slashes : j <= i
    IN  SubSeq(p, last + 1, Len(p))

\* The path the file system looks up: a trailing "/" does not matter.
Canon(p) ==
    IF Len(p) > 1 /\ p[Len(p)] = "/" THEN SubSeq(p, 1, Len(p) - 1) ELSE p

isdir(p) == Canon(p) \in fs.dirs
isfile(p) == Canon(p) \in fs.files

\* os.listdir(d), in the order the file system lists names (fs.order).
listdir(d) ==
    LET Here(n) == Join(d, n) \in fs.dirs \cup fs.files
    IN  SelectSeq(fs.order, Here)

RECURSIVE Flatten(_)
Flatten(ss) == IF ss = <<>> THEN <<>> ELSE Head(ss) \o Flatten(Tail(ss))

\* os.walk(top), top-down: one (root, dirs, files) triple per directory.
RECURSIVE walk(_)
walk(top) ==
    IF ~isdir(top) THEN <<>>
    ELSE LET names == listdir(top)
             IsD(n) == isdir(Join(top, n))
             IsF(n) == ~isdir(Join(top, n))
             dirs == SelectSeq(names, IsD)
             files == SelectSeq(names, IsF)
         IN  <<[root |-> top, dirs |-> dirs, files |-> files]>>
             \o Flatten([i \in DOMAIN dirs |-> walk(Join(top, dirs[i]))])

POM == <<"pom.xml">>
TARGET == <<"target">>

\* Module.__init__
Module(root) ==
    [root |-> root,
     pom |-> Join(root, POM),
     test_classes |-> <<>>,
     source_artifacts |-> <<>>,
     test_artifacts |-> <<>>,
     name |-> basename(root)]

\* classfile.Classfile(f): the descriptor the reader gives for a class file.
Classfile(f) ==
    [classfile |-> f,
     classname |-> fs.class[f].classname,
     is_interface |-> fs.class[f].is_interface,
     is_abstract |-> fs.class[f].is_abstract]

\* MavenProject.__get_classfiles
get_classfiles(files) ==
    LET IsClass(f) == isfile(f) /\ EndsWith(basename(f), <<".class">>)
        kept == SelectSeq(files, IsClass)
    IN  [i \in DOMAIN kept |-> Classfile(kept[i])]

\* PotentialTestClassNameFilter.accept
PotentialTestClassNameFilter_accept(clazz) ==
    LET f == basename(clazz.classfile)
    IN  IF Contains(f, "$") THEN FALSE
        ELSE IF ~EndsWith(f, <<".class">>) THEN FALSE
        ELSE LET name == SubSeq(f, 1, Len(f) - 1)
             IN  IF /\ ~StartsWith(name, <<"Test">>)
                    /\ ~EndsWith(name, <<"Test">>)
                    /\ ~EndsWith(name, <<"Test", "Case">>)
                 THEN FALSE
                 ELSE TRUE

\* NoAbstractClassFilter.accept
NoAbstractClassFilter_accept(clazz) ==
    ~(clazz.is_interface \/ clazz.is_abstract)

\* fnmatch.translate(pat): the regular expression, atom by atom ("*" is ".*",
\* "?" is ".", another character is itself), closed by \Z.
fnmatch_translate(pat) ==
    [i \in DOMAIN pat |->
        IF pat[i] = "*" THEN [atom |-> "any", star |-> TRUE]
        ELSE IF pat[i] = "?" THEN [atom |-> "any", star |-> FALSE]
        ELSE [atom |-> pat[i], star |-> FALSE]]

\* reobj.match(string) is not None, for a translated pattern: the expression
\* matches from the start of the string to its end.
RECURSIVE re_match(_, _)
re_match(re, string) ==
    IF re = <<>> THEN string = <<>>
    ELSE IF Head(re).star
         THEN \/ re_match(Tail(re), string)
              \/ string # <<>> /\ re_match(re, Tail(string))
         ELSE /\ string # <<>>
              /\ Head(re).atom \in {"any", Head(string)}
              /\ re_match(Tail(re), Tail(string))

\* IncludePatternsFilter.__init__; ExcludePatternsFilter inherits it.
PatternsFilter(kind, patterns) ==
    [kind |-> kind,
     patterns |-> patterns,
     reobjs |-> [i \in DOMAIN patterns |-> fnmatch_translate(patterns[i])]]

\* IncludePatternsFilter.accept
IncludePatternsFilter_accept(fil, clazz) ==
    \E i \in DOMAIN fil.reobjs : re_match(fil.reobjs[i], clazz.classname)

\* ExcludePatternsFilter.accept without its negation.
ExcludePatternsFilter_accept_not_negated(fil, clazz) ==
    IncludePatternsFilter_accept(fil, clazz)

\* ExcludePatternsFilter.accept
ExcludePatternsFilter_accept(fil, clazz) ==
    ~IncludePatternsFilter_accept(fil, clazz)

DefaultFilter(kind) == [kind |-> kind, patterns |-> <<>>, reobjs |-> <<>>]

\* fil.accept(c), dispatched on the filter's class.
accept(fil, clazz) ==
    CASE fil.kind = "PotentialTestClassNameFilter" ->
            PotentialTestClassNameFilter_accept(clazz)
      [] fil.kind = "NoAbstractClassFilter" -> NoAbstractClassFilter_accept(clazz)
      [] fil.kind = "IncludePatternsFilter" -> IncludePatternsFilter_accept(fil, clazz)
      [] fil.kind = "ExcludePatternsFilter" -> ExcludePatternsFilter_accept(fil, clazz)

\* The filter chain MavenProject.__init__ builds: the two default filters, the
\* include filter put in front of them, the exclude filter in front of that.
build_filters(include_patterns, exclude_patterns) ==
    LET default == <<DefaultFilter("PotentialTestClassNameFilter"),
                     DefaultFilter("NoAbstractClassFilter")>>
        with_include ==
            IF ~IsNone(include_patterns)
            THEN <<PatternsFilter("IncludePatternsFilter", Get(include_patterns))>>
                 \o default
            ELSE default
    IN  IF ~IsNone(exclude_patterns)
        THEN <<PatternsFilter("ExcludePatternsFilter", Get(exclude_patterns))>>
             \o with_include
        ELSE with_include

\* "for fil in self.__filters: classfiles = [c for c in classfiles if
\* fil.accept(c)]": the classes left, and the filters that were asked.
RECURSIVE apply_filters(_, _)
apply_filters(fils, classfiles) ==
    IF fils = <<>> THEN [classfiles |-> classfiles, asked |-> {}]
    ELSE LET fil == Head(fils)
             Ok(c) == accept(fil, c)
             rest == apply_filters(Tail(fils), SelectSeq(classfiles, Ok))
         IN  [classfiles |-> rest.classfiles,
              asked |-> rest.asked \cup
                        (IF classfiles = <<>> THEN {}
                         ELSE {[kind |-> fil.kind, npatterns |-> Len(fil.patterns)]})]

\* list.remove(x): the list without its first x.
list_remove(list, x) ==
    LET first == CHOOSE i \in DOMAIN list :
                    list[i] = x /\ \A j \in 1..(i - 1) : list[j] # x
    IN  SubSeq(list, 1, first - 1) \o SubSeq(list, first + 1, Len(list))

\* "for m in self.included_modules: self.__include_modules.remove(m.name)":
\* the list left, or ValueError at the first name that is not in it.
RECURSIVE remove_names(_, _)
remove_names(list, names) ==
    IF names = <<>> THEN [error |-> None, list |-> list]
    ELSE IF ~Contains(list, Head(names))
         THEN [error |-> Some("ValueError"), list |-> list]
         ELSE remove_names(list_remove(list, Head(names)), Tail(names))

\* The indices of the modules whose name is in include_modules, in order.
matching_modules(mods, include_modules) ==
    LET In(i) == Contains(include_modules, mods[i].name)
    IN  SelectSeq([i \in DOMAIN mods |-> i], In)

\* The class scan of one module: every directory below its target directory,
\* its class files, the filter chain.
scan_module(m, fils) ==
    LET triples == walk(Join(m.root, TARGET))
        per(t) ==
            LET abs_files == [i \in DOMAIN t.files |-> Join(t.root, t.files[i])]
            IN  apply_filters(fils, get_classfiles(abs_files))
    IN  [test_classes |->
            Flatten([i \in DOMAIN triples |-> per(triples[i]).classfiles]),
         asked |-> UNION {per(triples[i]).asked : i \in DOMAIN triples}]

\* "entry.endswith("-test-sources.jar") or entry.endswith("-tests.jar")"
is_test_jar(entry) ==
    EndsWith(entry, <<"-test", "-sources", ".jar">>) \/ EndsWith(entry, <<"-tests", ".jar">>)

\* "entry.endswith(".jar") and not entry.endswith("-sources.jar") and not
\* entry.endswith("-javadoc.jar")"
is_runtime_jar(entry) ==
    /\ EndsWith(entry, <<".jar">>)
    /\ ~EndsWith(entry, <<"-sources", ".jar">>)
    /\ ~EndsWith(entry, <<"-javadoc", ".jar">>)

\* classify_entry without "if module in self.included_modules".
classify_entry_any_module(target_root, entry, included) ==
    IF isfile(Join(target_root, entry))
    THEN IF is_test_jar(entry)
         THEN "test"
         ELSE IF is_runtime_jar(entry) THEN "source" ELSE "none"
    ELSE "none"

\* Where the artifact loop puts one entry of a target directory: "test" for
\* test_artifacts, "source" for source_artifacts, "none".
classify_entry(target_root, entry, included) ==
    IF isfile(Join(target_root, entry))
    THEN IF is_test_jar(entry)
         THEN (IF included THEN "test" ELSE "none")
         ELSE IF is_runtime_jar(entry) THEN "source" ELSE "none"
    ELSE "none"

\* The artifact loop over one module's target directory: the paths appended
\* to test_artifacts and to source_artifacts.
collect_artifacts(m, included) ==
    LET target_root == Join(m.root, TARGET)
        entries == listdir(target_root)
        IsTest(e) == classify_entry(target_root, e, included) = "test"
        IsSource(e) == classify_entry(target_root, e, included) = "source"
        abs(es) == [i \in DOMAIN es |-> Join(target_root, es[i])]
    IN  [test_artifacts |-> abs(SelectSeq(entries, IsTest)),
         source_artifacts |-> abs(SelectSeq(entries, IsSource))]

\* MavenProject.__init__ up to the call of _walk.
MavenProject_init ==
    /\ mp_pc = "init"
    /\ LET root == IF ~EndsWith(mp_args.project_root, <<"/">>)
                   THEN mp_args.project_root \o <<"/">>
                   ELSE mp_args.project_root
       IN  IF ~isdir(root) \/ ~isfile(Join(root, POM))
           THEN /\ mp_raised' = Some([type |-> "NotMavenProjectException", names |-> <<>>])
                /\ mp_pc' = "raised"
                /\ UNCHANGED <<project_root, include_left, filters>>
           ELSE /\ project_root' = root
                /\ include_left' = mp_args.include_modules
                /\ filters' = build_filters(mp_args.include_patterns,
                                            mp_args.exclude_patterns)
                /\ mp_pc' = "find_modules"
                /\ UNCHANGED mp_raised
    /\ UNCHANGED <<fs, mp_args, modules, included_modules, accept_calls, gvars>>

\* _walk: the directories that hold a pom.xml and a target directory.
walk_find_modules ==
    /\ mp_pc = "find_modules"
    /\ LET triples == walk(project_root)
           IsModule(t) == Contains(t.files, POM) /\ Contains(t.dirs, TARGET)
           found == SelectSeq(triples, IsModule)
       IN  modules' = [i \in DOMAIN found |-> Module(found[i].root)]
    /\ mp_pc' = "include"
    /\ UNCHANGED <<fs, mp_args, project_root, included_modules, include_left,
                   filters, accept_calls, mp_raised, gvars>>

\* _walk: the inclusion list and the check for missing modules.
walk_include ==
    /\ mp_pc = "include"
    /\ IF IsNone(include_left)
       THEN /\ included_modules' = [i \in DOMAIN modules |-> i]
            /\ mp_pc' = "scan"
            /\ UNCHANGED <<include_left, mp_raised>>
       ELSE LET inc == matching_modules(modules, Get(include_left))
            IN  /\ included_modules' = inc
                /\ IF Len(inc) # Len(Get(include_left))
                   THEN LET left == remove_names(Get(include_left),
                                        [i \in DOMAIN inc |-> modules[inc[i]].name])
                        IN  /\ include_left' = Some(left.list)
                            /\ mp_raised' =
                                 IF ~IsNone(left.error)
                                 THEN Some([type |-> "ValueError", names |-> <<>>])
                                 ELSE IF ~(Len(left.list) > 0)
                                 THEN Some([type |-> "AssertionError", names |-> <<>>])
                                 ELSE Some([type |-> "ModuleNotFoundException",
                                            names |-> left.list])
                            /\ mp_pc' = "raised"
                   ELSE /\ mp_pc' = "scan"
                        /\ UNCHANGED <<include_left, mp_raised>>
    /\ UNCHANGED <<fs, mp_args, project_root, modules, filters, accept_calls, gvars>>

\* _walk: the test classes of every included module.
walk_scan_classes ==
    /\ mp_pc = "scan"
    /\ LET IsIncluded(i) == Contains(included_modules, i)
           scans == [i \in DOMAIN modules |-> scan_module(modules[i], filters)]
       IN  /\ modules' = [i \in DOMAIN modules |->
                            IF IsIncluded(i)
                            THEN [modules[i] EXCEPT !.test_classes =
                                      @ \o scans[i].test_classes]
                            ELSE modules[i]]
           /\ accept_calls' = accept_calls \cup
                  UNION {scans[i].asked : i \in {j \in DOMAIN modules : IsIncluded(j)}}
    /\ mp_pc' = "artifacts"
    /\ UNCHANGED <<fs, mp_args, project_root, included_modules, include_left,
                   filters, mp_raised, gvars>>

\* _walk: the artifacts of every module, and the end of the construction.
walk_artifacts ==
    /\ mp_pc = "artifacts"
    /\ modules' = [i \in DOMAIN modules |->
                     LET found == collect_artifacts(modules[i],
                                                    Contains(included_modules, i))
                     IN  [modules[i] EXCEPT
                             !.test_artifacts = @ \o found.test_artifacts,
                             !.source_artifacts = @ \o found.source_artifacts]]
    /\ mp_pc' = "done"
    /\ UNCHANGED <<fs, mp_args, project_root, included_modules, include_left,
                   filters, accept_calls, mp_raised, gvars>>

NextProject ==
    \/ MavenProject_init
    \/ walk_find_modules
    \/ walk_include
    \/ walk_scan_classes
    \/ walk_artifacts

(***************************************************************************)
(* The inputs SpecProject constructs a MavenProject from.  The project     *)
(* root is /p; below it are the directories a, b and a/b, so that two      *)
(* modules can have the same name (b).  Three families of inputs vary one  *)
(* part each: the module tree and the inclusion list, the class files and  *)
(* the patterns, the entries of the target directories.                    *)
(***************************************************************************)
MaxInclude == 2     \* names in the inclusion list
MaxGlobLen == 2     \* characters in a class name and in a glob pattern
MaxEntryLen == 3    \* tokens in the name of a target directory's entry

RootDir == <<"/", "p">>
DirA == Join(RootDir, <<"a">>)
DirB == Join(RootDir, <<"b">>)
DirAB == Join(DirA, <<"b">>)
CandidateDirs == {RootDir, DirA, DirB, DirAB}

\* What a candidate directory holds: both pom.xml and target, one of them.
DirKinds == {"module", "pom_only", "target_only"}
HasPom(kind) == kind \in {"module", "pom_only"}
HasTarget(kind) == kind \in {"module", "target_only"}

RECURSIVE SetToSeq(_)
SetToSeq(S) ==
    IF S = {} THEN <<>>
    ELSE LET x == CHOOSE y \in S : TRUE IN <<x>> \o SetToSeq(S \ {x})

\* An entry below a target directory: its name, the subdirectory of target it
\* is in (None: directly in target), whether it is a regular file or a
\* directory, and for a class file what the descriptor reader finds in it.
Entry(name, sub, is_file, desc) ==
    [name |-> name, sub |-> sub, is_file |-> is_file, desc |-> desc]

EntryParent(d, e) ==
    IF IsNone(e.sub) THEN Join(d, TARGET) ELSE Join(Join(d, TARGET), Get(e.sub))

EntryPath(d, e) == Join(EntryParent(d, e), e.name)

\* The file system with the candidate directories of the kinds `kind` and the
\* entries `content[d]` below the target directory of each d that has one.
MakeFs(kind, content) ==
    LET targets == {d \in CandidateDirs : HasTarget(kind[d])}
        placed == {<<d, e>> : d \in targets, e \in UNION {content[c] : c \in targets}}
        there == {de \in placed : de[2] \in content[de[1]]}
        classes == {de \in there : de[2].is_file /\ ~IsNone(de[2].desc)}
    IN  [dirs |-> CandidateDirs
                  \cup {Join(d, TARGET) : d \in targets}
                  \cup {EntryParent(de[1], de[2]) : de \in there}
                  \cup {EntryPath(de[1], de[2]) : de \in {x \in there : ~x[2].is_file}},
         files |-> {Join(d, POM) : d \in {c \in CandidateDirs : HasPom(kind[c])}}
                   \cup {EntryPath(de[1], de[2]) : de \in {x \in there : x[2].is_file}},
         class |-> [f \in {EntryPath(de[1], de[2]) : de \in classes} |->
                      Get((CHOOSE de \in classes : EntryPath(de[1], de[2]) = f)[2].desc)],
         order |-> <<POM, TARGET, <<"a">>, <<"b">>, <<"classes">>, <<"lib">>>>
                   \o SetToSeq({de[2].name : de \in there})]

\* A project root that is not a directory.
NoFs == [dirs |-> {}, files |-> {}, class |-> <<>>, order |-> <<>>]

Desc(classname, is_interface, is_abstract) ==
    [classname |-> classname, is_interface |-> is_interface, is_abstract |-> is_abstract]

ClassEntry(name, classname, is_interface, is_abstract) ==
    Entry(name, Some(<<"classes">>), TRUE, Some(Desc(classname, is_interface, is_abstract)))

\* What every target directory of the first family holds.
PlainContent ==
    {ClassEntry(<<"Test", "A", ".class">>, <<"a">>, FALSE, FALSE),
     ClassEntry(<<"A", "Test", ".class">>, <<"b">>, FALSE, TRUE),
     Entry(<<"x", ".jar">>, None, TRUE, None),
     Entry(<<"x", "-tests", ".jar">>, None, TRUE, None)}

MavenArgs(root, include_modules, include_patterns, exclude_patterns) ==
    [project_root |-> root, include_modules |-> include_modules,
     include_patterns |-> include_patterns, exclude_patterns |-> exclude_patterns]

ModuleNames == {<<"a">>, <<"b">>, <<"c">>}
IncludeLists == Option(SeqsUpTo(ModuleNames, MaxInclude))

\* The module trees whose root holds a pom.xml.
ProjectTrees == {kind \in [CandidateDirs -> DirKinds] : HasPom(kind[RootDir])}

\* First family: every module tree with every inclusion list; the project
\* root given with its trailing "/"; a root without pom.xml; a root that is
\* not a directory.
TreeInputs ==
    {[fs |-> MakeFs(kind, [d \in CandidateDirs |-> PlainContent]),
      args |-> MavenArgs(RootDir, inc, None, None)] :
        kind \in ProjectTrees, inc \in IncludeLists}
    \cup {[fs |-> MakeFs(kind, [d \in CandidateDirs |-> PlainContent]),
           args |-> MavenArgs(RootDir \o <<"/">>, None, None, None)] :
             kind \in ProjectTrees}
    \cup {[fs |-> MakeFs([d \in CandidateDirs |-> "target_only"],
                         [d \in CandidateDirs |-> PlainContent]),
           args |-> MavenArgs(RootDir, None, None, None)]}
    \cup {[fs |-> NoFs, args |-> MavenArgs(RootDir, None, None, None)]}

GlobChars == {"a", "b"}
ClassNames == NonEmptySeqsUpTo(GlobChars, MaxGlobLen)
Patterns == NonEmptySeqsUpTo({"a", "*", "?"}, MaxGlobLen)

\* The class files of the second family: names the name heuristic takes and
\* names it refuses, concrete classes, abstract classes and interfaces.
ClassEntries ==
    UNION {{ClassEntry(<<"Test", "A", ".class">>, c, FALSE, FALSE),
            ClassEntry(<<"Test", "A", ".class">>, c, FALSE, TRUE),
            ClassEntry(<<"Test", "A", ".class">>, c, TRUE, TRUE),
            ClassEntry(<<"A", "Test", "Case", ".class">>, c, FALSE, FALSE),
            ClassEntry(<<"A", ".class">>, c, FALSE, FALSE),
            ClassEntry(<<"Test", "A", "$", "B", ".class">>, c, FALSE, FALSE)} :
           c \in ClassNames}

IncludePatternArgs == {None, Some(<<>>), Some(<<<<"a", "*">>, <<"b">>>>)}
ExcludePatternArgs ==
    {None, Some(<<>>)} \cup {Some(<<p>>) : p \in Patterns}
    \cup {Some(<<<<"a", "*">>, <<"*", "b">>>>)}

OneModuleKind ==
    [d \in CandidateDirs |-> IF d = DirA THEN "module" ELSE "pom_only"]

\* Second family: one module, one class file, every pattern.
FilterInputs ==
    {[fs |-> MakeFs(OneModuleKind, [d \in CandidateDirs |-> {e}]),
      args |-> MavenArgs(RootDir, None, inc, exc)] :
        e \in ClassEntries, inc \in IncludePatternArgs, exc \in ExcludePatternArgs}

JarTokens == {"x", "-test", "-tests", "-sources", "-javadoc", ".jar"}
EntryNames == NonEmptySeqsUpTo(JarTokens, MaxEntryLen)

\* A regular file in target, a directory in target, a regular file in target/lib.
JarEntries ==
    {Entry(n, None, TRUE, None) : n \in EntryNames}
    \cup {Entry(n, None, FALSE, None) : n \in EntryNames}
    \cup {Entry(n, Some(<<"lib">>), TRUE, None) : n \in EntryNames}

TwoModulesKind ==
    [d \in CandidateDirs |-> IF d \in {DirA, DirB} THEN "module" ELSE "pom_only"]

\* Third family: module a included and module b not, one entry in each target.
ArtifactInputs ==
    {[fs |-> MakeFs(TwoModulesKind, [d \in CandidateDirs |-> {e}]),
      args |-> MavenArgs(RootDir, inc, None, None)] :
        e \in JarEntries, inc \in {Some(<<<<"a">>>>)}}

ProjectInputs == TreeInputs \cup FilterInputs \cup ArtifactInputs

GrindIdle ==
    /\ args = <<>>
    /\ config_ok = FALSE
    /\ pc = "idle"
    /\ output_dir = "absent"
    /\ isolated_files = None
    /\ archive_runs = 0
    /\ archive_rc = None
    /\ hashes_file = None
    /\ hashes_read = FALSE
    /\ manifest = None
    /\ submit_runs = 0
    /\ submit_rc = None
    /\ errlog = <<>>
    /\ raised = None

InitProject ==
    /\ GrindIdle
    /\ \E inp \in ProjectInputs :
         /\ fs = inp.fs
         /\ mp_args = inp.args
    /\ mp_pc = "init"
    /\ project_root = <<>>
    /\ modules = <<>>
    /\ included_modules = <<>>
    /\ include_left = None
    /\ filters = <<>>
    /\ accept_calls = {}
    /\ mp_raised = None

SpecProject == InitProject /\ [][NextProject]_vars

(***************************************************************************)
(* Claims about the test command, checked under Spec.                      *)
(***************************************************************************)

\* How the command ended, by the ways C3 lists.
Ending ==
    IF pc # "done" THEN "running"
    ELSE IF IsNone(raised) THEN (IF args.list_modules THEN "list-modules" ELSE "success")
    ELSE IF Get(raised) \in IsolateErrors THEN "project error"
    ELSE IF Get(raised) = "SystemExit(2)" THEN "no tests"
    ELSE IF Get(raised) = "Exception: isolate batcharchive failed" THEN "archive failed"
    ELSE IF Get(raised) = "Exception: dist_test client submit failed" THEN "submit failed"
    ELSE "other"

\* C3: once the temp directory was created, every way the command ends leaves
\* it removed when --leak-temp is unset and in place when it is set.
C3_TempDirCleanup ==
    (pc = "done" /\ output_dir # "absent")
        => output_dir = (IF args.leak_temp THEN "exists" ELSE "removed")

\* The command ended by a failed archiving run, the directory removed.
C3_Witness ==
    /\ Ending = "archive failed"
    /\ ~args.leak_temp
    /\ output_dir = "removed"

\* C4: when generation produced zero task-description files the run ends with
\* exit status 2 after logging the include and exclude patterns, and nothing
\* of the later stages happens: no archiver, no hashes read, no manifest, no
\* submission.
C4_EmptySelectionFatal ==
    isolated_files = Some(0) =>
        /\ pc \in {"cleanup", "done"}
        /\ raised = Some("SystemExit(2)")
        /\ ExitStatus = 2
        /\ Len(errlog) = 3
        /\ errlog[2] = [msg |-> "Include patterns", arg |-> args.include_patterns]
        /\ errlog[3] = [msg |-> "Exclude patterns", arg |-> args.exclude_patterns]
        /\ archive_runs = 0
        /\ IsNone(archive_rc)
        /\ ~hashes_read
        /\ IsNone(manifest)
        /\ submit_runs = 0

\* A run with patterns given that found no tests and is over.
C4_Witness ==
    /\ isolated_files = Some(0)
    /\ pc = "done"
    /\ ~IsNone(args.include_patterns)
    /\ ExitStatus = 2

\* The task list `tasks` holds one record per pair of `inmap`, with the pair's
\* name, the pair's hash and the default timeout, and nothing else.
TasksMatch(tasks, inmap) ==
    /\ Len(tasks) = Cardinality(DOMAIN inmap)
    /\ \A k \in DOMAIN inmap :
         Cardinality({i \in DOMAIN tasks : tasks[i].description = k}) = 1
    /\ \A i \in DOMAIN tasks :
         /\ tasks[i].description \in DOMAIN inmap
         /\ tasks[i].isolate_hash = inmap[tasks[i].description]
         /\ tasks[i].timeout = 300

\* C5: the client is started at most once, only with the archiver exited 0
\* and the whole manifest on disk, never under --dry-run (which still writes
\* the manifest), never after a failed archiving run (which aborts with the
\* archiving error and writes no manifest).
C5_SubmissionPrecondition ==
    /\ submit_runs <= 1
    /\ submit_runs > 0 =>
         /\ archive_rc = Some(0)
         /\ ~args.dry_run
         /\ ~IsNone(manifest) /\ ~IsNone(hashes_file)
         /\ TasksMatch(Get(manifest), Get(hashes_file))
    /\ args.dry_run => submit_runs = 0
    /\ (args.dry_run /\ Ending = "success") => ~IsNone(manifest)
    /\ (~IsNone(archive_rc) /\ archive_rc # Some(0)) =>
         /\ submit_runs = 0
         /\ IsNone(manifest)
         /\ raised = Some("Exception: isolate batcharchive failed")

\* The client was started, after a manifest of two tasks was written.
C5_Witness ==
    /\ submit_runs = 1
    /\ ~IsNone(manifest)
    /\ Len(Get(manifest)) = 2

\* C6: for every hash mapping read, isolate_hashes_to_tasks writes a manifest
\* with exactly one task per pair: the pair's name, the pair's hash, timeout
\* 300.
C6_HashToTaskTotal ==
    hashes_read =>
        /\ ~IsNone(manifest)
        /\ TasksMatch(Get(manifest), Get(hashes_file))

\* What the code does keep of C6: a manifest, when one is written, matches the
\* mapping, and one is written whenever every name is ASCII.
C6_AsciiMappings ==
    hashes_read =>
        /\ ~IsNone(manifest) => TasksMatch(Get(manifest), Get(hashes_file))
        /\ (\A k \in DOMAIN Get(hashes_file) : \A i \in DOMAIN k : k[i] < 128)
               => ~IsNone(manifest)

(***************************************************************************)
(* Claims about the project model, checked under SpecProject.              *)
(***************************************************************************)
Elements(seq) == {seq[i] : i \in DOMAIN seq}

ModuleNameSet == {modules[i].name : i \in DOMAIN modules}

\* The inclusion list as the caller gave it (_walk mutates its own reference).
Requested == Get(mp_args.include_modules)

\* _walk is past its inclusion check: it went on to scan, or it raised there.
PastInclude ==
    \/ mp_pc \in {"scan", "artifacts", "done"}
    \/ mp_pc = "raised" /\ Get(mp_raised).type # "NotMavenProjectException"

\* The construction completed.
Constructed == mp_pc = "done"

\* C1: with an inclusion list of which some name matches no discovered module,
\* construction fails with ModuleNotFoundException and reports exactly the
\* names of the list that match no module.
C1_InclusionCompleteness ==
    (/\ PastInclude
     /\ ~IsNone(mp_args.include_modules)
     /\ Elements(Requested) \ ModuleNameSet # {})
        => /\ mp_pc = "raised"
           /\ Get(mp_raised).type = "ModuleNotFoundException"
           /\ Elements(Get(mp_raised).names) = Elements(Requested) \ ModuleNameSet

\* C10: with an inclusion list of which every name matches a discovered
\* module, construction raises nothing at the inclusion check, the included
\* modules are exactly the modules named in the list, and scanning goes on.
C10_NoSpuriousFailure ==
    (/\ PastInclude
     /\ ~IsNone(mp_args.include_modules)
     /\ Elements(Requested) \subseteq ModuleNameSet)
        => /\ mp_pc # "raised"
           /\ IsNone(mp_raised)
           /\ Elements(included_modules) =
                  {i \in DOMAIN modules : modules[i].name \in Elements(Requested)}

\* The name of the directory a path names: its last component.
DirectoryName(path) == basename(Canon(path))

\* C9: every discovered module's name is the name of its root directory, the
\* module at the project root included.
C9_ModuleNameIsDirectoryName ==
    \A i \in DOMAIN modules :
        /\ modules[i].name = DirectoryName(modules[i].root)
        /\ modules[i].name # <<>>

\* A glob pattern matches a whole string: the string splits into one piece per
\* pattern character, any piece for "*", one character for "?", the character
\* itself otherwise.
GlobMatches(pat, string) ==
    \E cut \in [0..Len(pat) -> 0..Len(string)] :
        /\ cut[0] = 0
        /\ cut[Len(pat)] = Len(string)
        /\ \A i \in 1..Len(pat) :
             /\ cut[i - 1] <= cut[i]
             /\ pat[i] # "*" => cut[i] = cut[i - 1] + 1
             /\ pat[i] \notin {"*", "?"} => string[cut[i]] = pat[i]

MatchesAny(patterns, classname) ==
    \E i \in DOMAIN patterns : GlobMatches(patterns[i], classname)

SelectedClasses == UNION {Elements(modules[i].test_classes) : i \in DOMAIN modules}

\* C2: a class whose name matches an exclude pattern is in no module's
\* test_classes, whatever the include patterns and the other filters say.
C2_ExcludeVeto ==
    (mp_pc \in {"artifacts", "done"} /\ ~IsNone(mp_args.exclude_patterns))
        => \A c \in SelectedClasses :
              ~MatchesAny(Get(mp_args.exclude_patterns), c.classname)

\* A class that matches an include pattern, has a test name and is concrete,
\* in an included module, was kept out by an exclude pattern.
C2_Witness ==
    /\ Constructed
    /\ ~IsNone(mp_args.include_patterns)
    /\ ~IsNone(mp_args.exclude_patterns)
    /\ \E f \in DOMAIN fs.class :
         /\ MatchesAny(Get(mp_args.exclude_patterns), fs.class[f].classname)
         /\ MatchesAny(Get(mp_args.include_patterns), fs.class[f].classname)
         /\ PotentialTestClassNameFilter_accept(Classfile(f))
         /\ NoAbstractClassFilter_accept(Classfile(f))
         /\ \A c \in SelectedClasses : c.classfile # f

\* An absent pattern list for an empty one.
NoneIfEmpty(patterns) == IF patterns = Some(<<>>) THEN None ELSE patterns

\* C8: a pattern filter is built and asked only when it has patterns, so an
\* empty include or exclude list selects what an absent one selects.
C8_EmptyPatternListIsNone ==
    mp_pc \in {"artifacts", "done"} =>
        /\ \A i \in DOMAIN filters :
             filters[i].kind \in {"IncludePatternsFilter", "ExcludePatternsFilter"}
                => Len(filters[i].patterns) > 0
        /\ \A call \in accept_calls :
             call.kind \in {"IncludePatternsFilter", "ExcludePatternsFilter"}
                => call.npatterns > 0
        /\ \A i \in Elements(included_modules) :
             modules[i].test_classes =
                scan_module(modules[i],
                            build_filters(NoneIfEmpty(mp_args.include_patterns),
                                          NoneIfEmpty(mp_args.exclude_patterns))).test_classes

\* The regular files directly in directory d.
DirectFiles(d) ==
    {f \in fs.files :
        /\ Len(f) > Len(d) + 1
        /\ SubSeq(f, 1, Len(d) + 1) = d \o <<"/">>
        /\ ~Contains(SubSeq(f, Len(d) + 2, Len(f)), "/")}

TestSuffixed(f) ==
    EndsWith(f, <<"-test", "-sources", ".jar">>) \/ EndsWith(f, <<"-tests", ".jar">>)

RuntimeSuffixed(f) ==
    /\ EndsWith(f, <<".jar">>)
    /\ ~EndsWith(f, <<"-test", "-sources", ".jar">>)
    /\ ~EndsWith(f, <<"-tests", ".jar">>)
    /\ ~EndsWith(f, <<"-sources", ".jar">>)
    /\ ~EndsWith(f, <<"-javadoc", ".jar">>)

\* C7: after construction, a regular file directly in a module's target
\* directory is a test artifact of the module iff it has a test suffix and
\* the module is included, and a source artifact iff it is a runtime jar,
\* included or not; the lists hold nothing else and share nothing, and a
\* module that is not included has no test artifacts and no test classes.
C7_ArtifactAttribution ==
    Constructed =>
        \A i \in DOMAIN modules :
            LET m == modules[i]
                included == i \in Elements(included_modules)
                direct == DirectFiles(Join(m.root, TARGET))
            IN  /\ \A f \in direct :
                     /\ f \in Elements(m.test_artifacts) <=> (TestSuffixed(f) /\ included)
                     /\ f \in Elements(m.source_artifacts) <=> RuntimeSuffixed(f)
                /\ Elements(m.test_artifacts) \cup Elements(m.source_artifacts) \subseteq direct
                /\ Elements(m.test_artifacts) \cap Elements(m.source_artifacts) = {}
                /\ ~included => m.test_artifacts = <<>> /\ m.test_classes = <<>>

\* A module left out by the inclusion list has a test jar in its target
\* directory and no test artifact, while an included module has one.
C7_Witness ==
    /\ Constructed
    /\ \E i \in DOMAIN modules :
         /\ i \notin Elements(included_modules)
         /\ \E f \in DirectFiles(Join(modules[i].root, TARGET)) : TestSuffixed(f)
         /\ modules[i].test_artifacts = <<>>
    /\ \E i \in Elements(included_modules) : modules[i].test_artifacts # <<>>

====
